---- MODULE Spec2Model ----
(***************************************************************************)
(* Model of SmartChatClient (src/smart_chat_client.py): the tool-use loop  *)
(* query_ollama_with_tools and the extractor _extract_tool_calls.          *)
(*                                                                         *)
(* A text is a sequence of one-character strings.  Chars turns a string    *)
(* literal into such a sequence.  Literals of the source that hold         *)
(* non-ASCII characters are written with one ASCII character per code      *)
(* point, so every length is the length Python's len() gives.              *)
(***************************************************************************)
EXTENDS Integers, Sequences, FiniteSets, TLC

Chars(s) == [i \in 1..Len(s) |-> SubSeq(s, i, i)]

Rep(c, n) == [i \in 1..n |-> c]

Min(S) == CHOOSE x \in S : \A y \in S : x <= y

RECURSIVE Concat(_)
Concat(ss) == IF ss = <<>> THEN <<>> ELSE Head(ss) \o Concat(Tail(ss))

\* re.finditer(json_pattern, response, re.DOTALL), with json_pattern =
\*     \{[^{}]*(?:\{[^{}]*\}[^{}]*)*\}
\* Every run [^{}]* is delimited by braces, so backtracking never finds a
\* match the greedy scan misses: from an opening brace the match is decided
\* by the braces that follow it, which must read (open close)* close.
BracePositions(t) == {i \in 1..Len(t) : t[i] \in {"{", "}"}}

\* The first brace at or after position p, 0 when there is none.
NextBrace(t, p) ==
    LET later == {i \in BracePositions(t) : i >= p}
    IN  IF later = {} THEN 0 ELSE Min(later)

\* After the opening brace: [^{}]* then groups \{[^{}]*\}[^{}]* then \}.
\* q is the position the next [^{}]* starts at; the result is the position
\* of the closing brace of the match, 0 when the pattern does not match.
RECURSIVE GroupLoop(_, _)
GroupLoop(t, q) ==
    LET b == NextBrace(t, q)
    IN  IF b = 0 THEN 0
        ELSE IF t[b] = "}" THEN b
        ELSE LET c == NextBrace(t, b + 1)
             IN  IF c = 0 \/ t[c] = "{" THEN 0 ELSE GroupLoop(t, c + 1)

\* The end of the pattern's match starting at p (t[p] is "{"), or 0.
MatchEnd(t, p) == GroupLoop(t, p + 1)

\* The non-overlapping matches, left to right, searched from position pos.
RECURSIVE FindIter(_, _)
FindIter(t, pos) ==
    LET starts == {i \in BracePositions(t) :
                      i >= pos /\ t[i] = "{" /\ MatchEnd(t, i) # 0}
    IN  IF starts = {} THEN <<>>
        ELSE LET p == Min(starts)
                 e == MatchEnd(t, p)
             IN  <<[start |-> p, end |-> e]>> \o FindIter(t, e + 1)

\* json_str.replace("'", '"')
ReplaceQuotes(s) == [i \in 1..Len(s) |-> IF s[i] = "'" THEN "\"" ELSE s[i]]

(***************************************************************************)
(* json.loads, as CPython's decoder reads a text.  A decoded value is one  *)
(* of [str |-> text], [num |-> lexeme], [lit |-> name], [arr |-> values],  *)
(* [obj |-> pairs]; a dict is the sequence of its [key, val] pairs in      *)
(* insertion order.  A failed decode names the exception class raised.     *)
(***************************************************************************)
Whitespace == {" ", "\t", "\n", "\r"}

Digits == {"0", "1", "2", "3", "4", "5", "6", "7", "8", "9"}

HexDigits == Digits \cup {"a", "b", "c", "d", "e", "f", "A", "B", "C", "D", "E", "F"}

\* The depth of nested arrays and objects at which the decoder's
\* Py_EnterRecursiveCall raises RecursionError: sys.getrecursionlimit(),
\* 1000 unless changed (the source never changes it).
RecursionLimit == 1000

JsonFail(exc) == [err |-> exc]

JsonOk(v, n) == [err |-> "none", val |-> v, next |-> n]

\* The character at position p, "" past the end of the text.
At(t, p) == IF p >= 1 /\ p <= Len(t) THEN t[p] ELSE ""

StartsWith(t, p, w) == p + Len(w) - 1 <= Len(t) /\ SubSeq(t, p, p + Len(w) - 1) = w

RECURSIVE SkipWs(_, _)
SkipWs(t, p) == IF At(t, p) \in Whitespace THEN SkipWs(t, p + 1) ELSE p

RECURSIVE DigitsEnd(_, _)
DigitsEnd(t, p) == IF At(t, p) \in Digits THEN DigitsEnd(t, p + 1) ELSE p

\* dict[k] = v: a repeated key keeps its place and takes the later value.
DictSet(pairs, k, v) ==
    IF \E i \in DOMAIN pairs : pairs[i].key = k
    THEN [i \in DOMAIN pairs |->
             IF pairs[i].key = k THEN [key |-> k, val |-> v] ELSE pairs[i]]
    ELSE Append(pairs, [key |-> k, val |-> v])

DictHas(pairs, k) == \E i \in DOMAIN pairs : pairs[i].key = k

\* dict.get(k, default)
DictGet(pairs, k, default) ==
    IF DictHas(pairs, k)
    THEN pairs[CHOOSE i \in DOMAIN pairs : pairs[i].key = k].val
    ELSE default

\* The character an escape \e stands for ("" when e starts no escape).
\* A backspace has no TLA+ literal and is kept as the two characters \b.
EscapeChar(e) ==
    CASE e = "\"" -> "\""
      [] e = "\\" -> "\\"
      [] e = "/" -> "/"
      [] e = "b" -> "\\b"
      [] e = "f" -> "\f"
      [] e = "n" -> "\n"
      [] e = "r" -> "\r"
      [] e = "t" -> "\t"
      [] OTHER -> ""

\* py_scanstring with strict=True, from the character after the opening
\* quote: a control character or a bad escape is a JSONDecodeError.  An
\* escape \uXXXX is kept as the one element "\uXXXX".
RECURSIVE ScanString(_, _, _)
ScanString(t, p, acc) ==
    LET c == At(t, p)
    IN  IF c = "" THEN JsonFail("JSONDecodeError")
        ELSE IF c = "\"" THEN JsonOk([str |-> acc], p + 1)
        ELSE IF c \in {"\t", "\n", "\r", "\f"} THEN JsonFail("JSONDecodeError")
        ELSE IF c # "\\" THEN ScanString(t, p + 1, Append(acc, c))
        ELSE LET e == At(t, p + 1)
             IN  IF e = "u"
                 THEN IF \A j \in 2..5 : At(t, p + j) \in HexDigits
                      THEN ScanString(t, p + 6, Append(acc,
                               "\\u" \o t[p + 2] \o t[p + 3] \o t[p + 4] \o t[p + 5]))
                      ELSE JsonFail("JSONDecodeError")
                 ELSE IF EscapeChar(e) = "" THEN JsonFail("JSONDecodeError")
                 ELSE ScanString(t, p + 2, Append(acc, EscapeChar(e)))

\* _match_number: -?(0|[1-9][0-9]*)(\.[0-9]+)?([eE][-+]?[0-9]+)?
\* The end of the integer part that starts at s, 0 when there is none.
IntEnd(t, s) ==
    IF At(t, s) = "0" THEN s + 1
    ELSE IF At(t, s) \in Digits THEN DigitsEnd(t, s + 1)
    ELSE 0

\* The end of the fraction that may follow the integer part ending at e.
FracEnd(t, e) ==
    IF At(t, e) = "." /\ At(t, e + 1) \in Digits THEN DigitsEnd(t, e + 2) ELSE e

\* The end of the exponent that may follow the number ending at e.
ExpEnd(t, e) ==
    IF At(t, e) \in {"e", "E"} /\ At(t, e + 1) \in Digits THEN DigitsEnd(t, e + 2)
    ELSE IF At(t, e) \in {"e", "E"} /\ At(t, e + 1) \in {"+", "-"} /\ At(t, e + 2) \in Digits
    THEN DigitsEnd(t, e + 3)
    ELSE e

NumberUpTo(t, p, e) == JsonOk([num |-> SubSeq(t, p, e - 1)], e)

NumberFrom(t, p, e) ==
    IF e = 0 THEN JsonFail("JSONDecodeError") ELSE NumberUpTo(t, p, ExpEnd(t, FracEnd(t, e)))

MatchNumber(t, p) == NumberFrom(t, p, IntEnd(t, IF At(t, p) = "-" THEN p + 1 ELSE p))

NamedConstants == <<"null", "true", "false", "NaN", "Infinity", "-Infinity">>

\* The named constants the text reads at p (at most one).
NamedAt(t, p) == {i \in DOMAIN NamedConstants : StartsWith(t, p, Chars(NamedConstants[i]))}

NamedOrNumber(t, p, named) ==
    IF named # {}
    THEN JsonOk([lit |-> NamedConstants[Min(named)]], p + Len(NamedConstants[Min(named)]))
    ELSE MatchNumber(t, p)

\* Whether the brackets opening at p nest past the recursion limit from
\* depth d: every array entered costs one level, and nothing else is read
\* before the innermost of a run of opening brackets is entered.
NestsPastLimit(t, p, d) == \A j \in 0..(RecursionLimit - d) : At(t, p + j) = "["

\* scan_once, _parse_object and _parse_array.  An object or array entered
\* at depth d holds its values at depth d + 1.  Each step of a parser takes
\* what the step before it read.
RECURSIVE ScanOnce(_, _, _)
RECURSIVE ObjectMembers(_, _, _, _)
RECURSIVE ArrayElements(_, _, _, _)

\* After a member's value: "}" ends the object, "," leads to the next key.
MemberEnd(t, d, pairs, e) ==
    IF At(t, e) = "}" THEN JsonOk([obj |-> pairs], e + 1)
    ELSE IF At(t, e) # "," THEN JsonFail("JSONDecodeError")
    ELSE ObjectMembers(t, SkipWs(t, e + 1), d, pairs)

AfterValue(t, d, pairs, key, v) ==
    IF v.err # "none" THEN v
    ELSE MemberEnd(t, d, DictSet(pairs, key, v.val), SkipWs(t, v.next))

AfterKey(t, d, pairs, key, c) ==
    IF At(t, c) # ":" THEN JsonFail("JSONDecodeError")
    ELSE AfterValue(t, d, pairs, key, ScanOnce(t, SkipWs(t, c + 1), d))

MemberKey(t, d, pairs, k) ==
    IF k.err # "none" THEN k ELSE AfterKey(t, d, pairs, k.val.str, SkipWs(t, k.next))

\* _parse_object from a key: p is at the key's opening quote.
ObjectMembers(t, p, d, pairs) ==
    IF At(t, p) # "\"" THEN JsonFail("JSONDecodeError")
    ELSE MemberKey(t, d, pairs, ScanString(t, p + 1, <<>>))

ElementEnd(t, d, vals, e) ==
    IF At(t, e) = "]" THEN JsonOk([arr |-> vals], e + 1)
    ELSE IF At(t, e) # "," THEN JsonFail("JSONDecodeError")
    ELSE ArrayElements(t, SkipWs(t, e + 1), d, vals)

AfterElement(t, d, vals, v) ==
    IF v.err # "none" THEN v
    ELSE ElementEnd(t, d, Append(vals, v.val), SkipWs(t, v.next))

\* _parse_array from an element.
ArrayElements(t, p, d, vals) == AfterElement(t, d, vals, ScanOnce(t, p, d))

ObjectFrom(t, q, d) ==
    IF At(t, q) = "}" THEN JsonOk([obj |-> <<>>], q + 1) ELSE ObjectMembers(t, q, d, <<>>)

ArrayFrom(t, q, d) ==
    IF At(t, q) = "]" THEN JsonOk([arr |-> <<>>], q + 1) ELSE ArrayElements(t, q, d, <<>>)

ScanOnce(t, p, d) ==
    IF At(t, p) = "" THEN JsonFail("JSONDecodeError")
    ELSE IF At(t, p) = "\"" THEN ScanString(t, p + 1, <<>>)
    ELSE IF At(t, p) = "{"
    THEN IF d + 1 > RecursionLimit THEN JsonFail("RecursionError")
         ELSE ObjectFrom(t, SkipWs(t, p + 1), d + 1)
    ELSE IF At(t, p) = "["
    THEN IF NestsPastLimit(t, p, d) THEN JsonFail("RecursionError")
         ELSE ArrayFrom(t, SkipWs(t, p + 1), d + 1)
    ELSE NamedOrNumber(t, p, NamedAt(t, p))

\* The end of decode: whitespace may follow the value, nothing else.
DecodeEnd(s, r) ==
    IF r.err # "none" THEN r
    ELSE IF SkipWs(s, r.next) # Len(s) + 1 THEN JsonFail("JSONDecodeError")
    ELSE r

\* json.loads(s)
JsonLoads(s) == DecodeEnd(s, ScanOnce(s, SkipWs(s, 1), 0))

(***************************************************************************)
(* _extract_tool_calls(response).  The result is the list tool_calls, or   *)
(* the exception that leaves the function: the except clause catches       *)
(* json.JSONDecodeError, ValueError and TypeError and nothing else.        *)
(***************************************************************************)
CaughtByExtractor == {"JSONDecodeError", "ValueError", "TypeError"}

\* CallOfData letting the candidate go when its "args" is no mapping.
CallOfDataDropping(data, tool_calls) ==
    IF "obj" \in DOMAIN data /\ DictHas(data.obj, Chars("tool"))
       /\ "obj" \in DOMAIN DictGet(data.obj, Chars("args"), [obj |-> <<>>])
    THEN Append(tool_calls,
             [tool |-> DictGet(data.obj, Chars("tool"), [lit |-> "null"]),
              args |-> DictGet(data.obj, Chars("args"), [obj |-> <<>>]).obj])
    ELSE tool_calls

\* Lines 201-212: the tool call of a decoded candidate, if it is one.
CallOfData(data, tool_calls) ==
    IF "obj" \in DOMAIN data /\ DictHas(data.obj, Chars("tool"))
    THEN Append(tool_calls,
             [tool |-> DictGet(data.obj, Chars("tool"), [lit |-> "null"]),
              args |-> IF "obj" \in DOMAIN DictGet(data.obj, Chars("args"), [obj |-> <<>>])
                       THEN DictGet(data.obj, Chars("args"), [obj |-> <<>>]).obj
                       ELSE <<>>])
    ELSE tool_calls

\* The try statement around the decoding of one match (lines 195-216).
TryCandidate(decoded, tool_calls) ==
    IF decoded.err \in CaughtByExtractor THEN [raised |-> "none", calls |-> tool_calls]
    ELSE IF decoded.err # "none" THEN [raised |-> decoded.err, calls |-> tool_calls]
    ELSE [raised |-> "none", calls |-> CallOfData(decoded.val, tool_calls)]

\* The loop body for one match: tool_calls after it, or the exception.
ExtractCandidate(json_str, tool_calls) ==
    TryCandidate(JsonLoads(ReplaceQuotes(json_str)), tool_calls)

RECURSIVE ExtractLoop(_, _, _)

ExtractRest(response, matches, r) ==
    IF r.raised # "none" THEN r ELSE ExtractLoop(response, matches, r.calls)

ExtractLoop(response, matches, tool_calls) ==
    IF matches = <<>> THEN [raised |-> "none", calls |-> tool_calls]
    ELSE ExtractRest(response, Tail(matches),
             ExtractCandidate(SubSeq(response, Head(matches).start, Head(matches).end),
                              tool_calls))

extract_tool_calls(response) == ExtractLoop(response, FindIter(response, 1), <<>>)

(***************************************************************************)
(* Rendering of values into f-strings: str(value).                         *)
(***************************************************************************)
RECURSIVE PyRepr(_)
RECURSIVE JoinRepr(_)
RECURSIVE JoinItems(_)

\* str() of a decoded value: a string is itself, anything else its repr.
PyStr(v) == IF "str" \in DOMAIN v THEN v.str ELSE PyRepr(v)

PyRepr(v) ==
    IF "str" \in DOMAIN v THEN <<"'">> \o v.str \o <<"'">>
    ELSE IF "num" \in DOMAIN v THEN v.num
    ELSE IF "lit" \in DOMAIN v
    THEN CASE v.lit = "null" -> Chars("None")
           [] v.lit = "true" -> Chars("True")
           [] v.lit = "false" -> Chars("False")
           [] v.lit = "NaN" -> Chars("nan")
           [] v.lit = "Infinity" -> Chars("inf")
           [] OTHER -> Chars("-inf")
    ELSE IF "arr" \in DOMAIN v THEN <<"[">> \o JoinRepr(v.arr) \o <<"]">>
    ELSE <<"{">> \o JoinItems(v.obj) \o <<"}">>

JoinRepr(vals) ==
    IF vals = <<>> THEN <<>>
    ELSE PyRepr(Head(vals))
         \o (IF Len(vals) > 1 THEN Chars(", ") ELSE <<>>) \o JoinRepr(Tail(vals))

JoinItems(pairs) ==
    IF pairs = <<>> THEN <<>>
    ELSE PyRepr([str |-> Head(pairs).key]) \o Chars(": ") \o PyRepr(Head(pairs).val)
         \o (IF Len(pairs) > 1 THEN Chars(", ") ELSE <<>>) \o JoinItems(Tail(pairs))

(***************************************************************************)
(* The collaborators of the client: the MCP tool provider and the Ollama   *)
(* backend.  What they answer is an input of the model.                    *)
(***************************************************************************)
\* The tools src/mcp_server.py registers, as session.list_tools() reports them.
ProviderTools ==
    <<Chars("get_current_time"), Chars("sum"), Chars("get_date"),
      Chars("multiply"), Chars("read_notes"), Chars("search_duckduckgo")>>

\* Whether a tool call names a tool of the registry.
InRegistry(tools, call) ==
    "str" \in DOMAIN call.tool /\ \E i \in DOMAIN tools : tools[i] = call.tool.str

\* What a tool invocation can come back with: the text of the first content
\* item, or an exception with its message.
ToolOutcomes(call) ==
    { [raised |-> FALSE,
       text |-> IF InRegistry(ProviderTools, call)
                THEN Chars("result of ") \o call.tool.str
                ELSE Chars("Unknown tool: ") \o PyStr(call.tool)],
      [raised |-> TRUE, text |-> Chars("Connection closed")] }

\* Replies of the model.
ReplyPlain == Chars("The sum is 5.")

ReplyTwoCalls ==
    Chars("{\"tool\": \"get_date\"}\n{\"tool\": \"sum\", \"args\": {\"a\": 2, \"b\": 3}}")

ReplyUnknownTool == Chars("I will use {\"tool\": \"get_weather\", \"args\": {\"city\": \"Kyiv\"}}")

ReplyMalformed == Chars("{tool: 'sum', args: {a: 2, b:}}")

ReplyDeep ==
    Chars("{\"tool\": ") \o Rep("[", RecursionLimit + 1)
        \o Rep("]", RecursionLimit + 1) \o Chars("}")

Replies == <<ReplyPlain, ReplyTwoCalls, ReplyUnknownTool, ReplyMalformed, <<>>, ReplyDeep>>

\* What the POST to /api/generate can come back with: an exception of httpx
\* or of the JSON decoding, or the decoded body, a dict.
BackendOutcomes ==
    { [kind |-> "ConnectError"], [kind |-> "ReadTimeout"] }
    \cup { [kind |-> "ok", data |-> <<[key |-> Chars("response"), val |-> [str |-> Replies[i]]]>>] :
             i \in DOMAIN Replies }
    \cup { [kind |-> "ok", data |-> <<[key |-> Chars("done"), val |-> [lit |-> "true"]]>>] }

\* _call_ollama(system_prompt, prompt): the text returned, or the message of
\* the Exception raised.
call_ollama(outcome) ==
    IF outcome.kind = "ok"
    THEN [raised |-> FALSE,
          text |-> DictGet(outcome.data, Chars("response"),
                           [str |-> Chars("Pomylka: porozna vidpovidj vid modeli")]).str]
    ELSE IF outcome.kind = "ConnectError"
    THEN [raised |-> TRUE, text |-> Chars("Ollama nedostupna na http://localhost:11434")]
    ELSE [raised |-> TRUE,
          text |-> Chars("Pomylka pry zapyti do Ollama: ") \o Chars(outcome.kind)]

(***************************************************************************)
(* The client and one call of query_ollama_with_tools at a time, as main   *)
(* makes them.  The call is cut at its awaits: pc names the await the      *)
(* coroutine is suspended at.                                              *)
(***************************************************************************)
VARIABLES
    session,               \* self.session: "none" until initialize
    available_tools,       \* self.available_tools
    pc,                    \* "idle", "call_model", "call_tool", "final_call", "done"
    request,               \* the user_message argument of the call
    max_iterations,
    iteration,
    user_message,
    full_message,
    conversation_history,
    response,
    tool_calls,
    tool_results,
    result,                \* how the call ended
    trace,                 \* the calls made to the backend and to the provider
    pieces,                \* the pieces a text given to the extractor is made of
    model,                 \* self.model
    previous,              \* how the call before this one ended ("none": there was none)
    runs                   \* the calls in flight when two are interleaved

vars == <<session, available_tools, pc, request, max_iterations, iteration,
          user_message, full_message, conversation_history, response,
          tool_calls, tool_results, result, trace, pieces, model, previous, runs>>

\* The largest max_iterations a call is given.
MaxBudget == 3

\* conversation_history[-4:]
ContextWindow == 4

\* msg['content'][:200]
TruncateLen == 200

UserMessages ==
    { Chars("What is 2 + 3, and what is the date?"),
      Chars("Summarise: ") \o Rep("z", TruncateLen) }

Max(a, b) == IF a >= b THEN a ELSE b

\* seq[-n:]
LastN(seq, n) == SubSeq(seq, Max(1, Len(seq) - n + 1), Len(seq))

\* text[:n]
Prefix(text, n) == SubSeq(text, 1, IF Len(text) < n THEN Len(text) ELSE n)

\* ContextLines with the contents rendered whole.
RECURSIVE ContextLinesWhole(_)
ContextLinesWhole(msgs) ==
    IF msgs = <<>> THEN <<>>
    ELSE Chars(Head(msgs).role) \o Chars(": ")
         \o Head(msgs).content \o Chars("...\n")
         \o ContextLinesWhole(Tail(msgs))

\* The lines full_message gets for the messages msgs (line 77).
RECURSIVE ContextLines(_)
ContextLines(msgs) ==
    IF msgs = <<>> THEN <<>>
    ELSE Chars(Head(msgs).role) \o Chars(": ")
         \o Prefix(Head(msgs).content, TruncateLen) \o Chars("...\n")
         \o ContextLines(Tail(msgs))

\* full_message of an iteration after the first (lines 75-77).
ContextMessage(message, history) ==
    message \o Chars("\n\n[Kontekst poperednih krokiv]\n")
            \o ContextLines(LastN(history, ContextWindow))

\* ResultEntries with the results taken last first.
RECURSIVE ResultEntriesReversed(_)
ResultEntriesReversed(results) ==
    IF results = <<>> THEN <<>>
    ELSE ResultEntriesReversed(Tail(results))
         \o Chars("\n# Instrument '") \o PyStr(Head(results).tool) \o Chars("':\n")
         \o Head(results).result \o Chars("\n")

\* The entries of results_message (lines 119-120).
RECURSIVE ResultEntries(_)
ResultEntries(results) ==
    IF results = <<>> THEN <<>>
    ELSE Chars("\n# Instrument '") \o PyStr(Head(results).tool) \o Chars("':\n")
         \o Head(results).result \o Chars("\n")
         \o ResultEntries(Tail(results))

\* results_message (lines 118-122).
ResultsMessage(results) ==
    Chars("Osj rezuljtaty vykonanna instrumentiv:\n")
    \o ResultEntries(results)
    \o Chars("\nTeper, yspoljzuucy cu informaciu, daj ostatocnu vidpovidj korystuvacu.")

Returned(line, text) == [how |-> "return", line |-> line, value |-> text]

Running == [how |-> "running"]

\* How a call ended, for the next call to remember: "GatewayFailed" for the
\* returns of lines 83 and 134, "ended" for any other end, "none" before the
\* first call.
Ended(r) ==
    IF r.how = "running" THEN "none"
    ELSE IF r.how = "return" /\ r.line \in {83, 134} THEN "GatewayFailed"
    ELSE "ended"

Init ==
    /\ session = "none"
    /\ available_tools = <<>>
    /\ pc = "idle"
    /\ request = <<>>
    /\ max_iterations = 0
    /\ iteration = 0
    /\ user_message = <<>>
    /\ full_message = <<>>
    /\ conversation_history = <<>>
    /\ response = <<>>
    /\ tool_calls = <<>>
    /\ tool_results = <<>>
    /\ result = Running
    /\ trace = <<>>
    /\ pieces = <<>>
    /\ model = "llama2"
    /\ previous = "none"
    /\ runs = <<>>

\* initialize(session), lines 19-25.
initialize ==
    /\ session = "none"
    /\ session' = "open"
    /\ available_tools' = ProviderTools
    /\ UNCHANGED <<pc, request, max_iterations, iteration, user_message, full_message,
                   conversation_history, response, tool_calls, tool_results, result, trace,
                   pieces, model, previous, runs>>

\* Started with the turn history kept on the client between calls: the new
\* call appends to what the call before it left.
StartedKeepingHistory(message, budget) ==
    /\ session = "open"
    /\ pc \in {"idle", "done"}
    /\ request' = message
    /\ max_iterations' = budget
    /\ iteration' = 0
    /\ user_message' = message
    /\ response' = <<>>
    /\ tool_calls' = <<>>
    /\ tool_results' = <<>>
    /\ trace' = <<>>
    /\ IF budget <= 0
       THEN /\ pc' = "done"
            /\ result' = [how |-> "return_none"]
            /\ full_message' = <<>>
            /\ UNCHANGED conversation_history
       ELSE /\ pc' = "call_model"
            /\ result' = Running
            /\ full_message' = message
            /\ conversation_history' =
                  Append(conversation_history, [role |-> "user", content |-> message])

\* Started with a loop that tests its budget after the body: the first
\* iteration runs whatever the budget.
StartedRunningOnce(message, budget) ==
    /\ session = "open"
    /\ pc \in {"idle", "done"}
    /\ request' = message
    /\ max_iterations' = budget
    /\ iteration' = 0
    /\ user_message' = message
    /\ response' = <<>>
    /\ tool_calls' = <<>>
    /\ tool_results' = <<>>
    /\ trace' = <<>>
    /\ pc' = "call_model"
    /\ result' = Running
    /\ full_message' = message
    /\ conversation_history' = <<[role |-> "user", content |-> message]>>

\* The locals of query_ollama_with_tools(message, budget) at its first await
\* (lines 27-81).  With no iteration to run the function falls off its end
\* and returns None.
Started(message, budget) ==
    /\ session = "open"
    /\ pc \in {"idle", "done"}
    /\ request' = message
    /\ max_iterations' = budget
    /\ iteration' = 0
    /\ user_message' = message
    /\ response' = <<>>
    /\ tool_calls' = <<>>
    /\ tool_results' = <<>>
    /\ trace' = <<>>
    /\ IF budget <= 0
       THEN /\ pc' = "done"
            /\ result' = [how |-> "return_none"]
            /\ full_message' = <<>>
            /\ conversation_history' = <<>>
       ELSE /\ pc' = "call_model"
            /\ result' = Running
            /\ full_message' = message
            /\ conversation_history' = <<[role |-> "user", content |-> message]>>

\* query_ollama_with_tools(message, budget) up to its first await (lines
\* 27-81); main calls it after initialize and awaits its end (line 267).
Query(message, budget) ==
    /\ Started(message, budget)
    /\ UNCHANGED <<session, available_tools, pieces, model, previous, runs>>

\* Scanned returning the variable response, which still holds the reply of
\* the iteration before.
ScannedStale(reply, found) ==
    /\ response' = reply
    /\ IF found.raised # "none"
       THEN /\ result' = [how |-> "raise", exc |-> found.raised]
            /\ pc' = "done"
            /\ UNCHANGED <<tool_calls, tool_results>>
       ELSE IF found.calls = <<>>
       THEN /\ result' = Returned(91, response)
            /\ pc' = "done"
            /\ tool_calls' = <<>>
            /\ UNCHANGED tool_results
       ELSE /\ tool_calls' = found.calls
            /\ tool_results' = <<>>
            /\ pc' = "call_tool"
            /\ UNCHANGED result

\* Lines 85-91 for a reply: what _extract_tool_calls found decides.
Scanned(reply, found) ==
    /\ response' = reply
    /\ IF found.raised # "none"
       THEN /\ result' = [how |-> "raise", exc |-> found.raised]
            /\ pc' = "done"
            /\ UNCHANGED <<tool_calls, tool_results>>
       ELSE IF found.calls = <<>>
       THEN /\ result' = Returned(91, reply)
            /\ pc' = "done"
            /\ tool_calls' = <<>>
            /\ UNCHANGED tool_results
       ELSE /\ tool_calls' = found.calls
            /\ tool_results' = <<>>
            /\ pc' = "call_tool"
            /\ UNCHANGED result

\* Replied with a loop that tries the model call again when it raises.
RepliedRetrying(r) ==
    IF r.raised
    THEN UNCHANGED <<pc, result, response, tool_calls, tool_results>>
    ELSE Scanned(r.text, extract_tool_calls(r.text))

\* Lines 80-91 for what _call_ollama came back with.
Replied(r) ==
    /\ IF r.raised
       THEN /\ result' = Returned(83, Chars("X Pomylka pry zvernenna do Ollama: ") \o r.text)
            /\ pc' = "done"
            /\ UNCHANGED <<response, tool_calls, tool_results>>
       ELSE Scanned(r.text, extract_tool_calls(r.text))

\* The model call of an iteration comes back (lines 80-91): a gateway error
\* ends the call, a reply without tool calls is the answer, a reply with
\* tool calls starts the round.  An exception of _extract_tool_calls is
\* caught nowhere in the function and leaves it.
ModelReplies(outcome) ==
    /\ pc = "call_model"
    /\ trace' = Append(trace, [ev |-> "model", forced |-> FALSE,
                               iteration |-> iteration, outcome |-> outcome])
    /\ Replied(call_ollama(outcome))
    /\ UNCHANGED <<session, available_tools, request, max_iterations, iteration,
                   user_message, full_message, conversation_history, pieces,
                   model, previous, runs>>

\* EndRound without the test of line 128: the loop ends with the last
\* iteration and no further model call is made.
EndRoundNoFinalCall(results) ==
    /\ conversation_history' = conversation_history
                     \o <<[role |-> "assistant", content |-> response],
                          [role |-> "user", content |-> ResultsMessage(results)]>>
    /\ user_message' = ResultsMessage(results)
    /\ IF iteration = max_iterations - 1
       THEN /\ pc' = "done"
            /\ UNCHANGED <<iteration, full_message>>
       ELSE /\ pc' = "call_model"
            /\ iteration' = iteration + 1
            /\ full_message' = ContextMessage(ResultsMessage(results), conversation_history')

\* EndRound in a loop that does not count: every round leads to the next
\* iteration.
EndRoundUnbounded(results) ==
    /\ conversation_history' = conversation_history
                     \o <<[role |-> "assistant", content |-> response],
                          [role |-> "user", content |-> ResultsMessage(results)]>>
    /\ user_message' = ResultsMessage(results)
    /\ pc' = "call_model"
    /\ iteration' = iteration + 1
    /\ full_message' = ContextMessage(ResultsMessage(results), conversation_history')

\* EndRound storing no more than the window: the history keeps its last
\* turns only.
EndRoundTrimming(results) ==
    /\ conversation_history' =
          LastN(conversation_history
                  \o <<[role |-> "assistant", content |-> response],
                       [role |-> "user", content |-> ResultsMessage(results)]>>,
                ContextWindow)
    /\ user_message' = ResultsMessage(results)
    /\ IF iteration = max_iterations - 1
       THEN /\ pc' = "final_call"
            /\ UNCHANGED <<iteration, full_message>>
       ELSE /\ pc' = "call_model"
            /\ iteration' = iteration + 1
            /\ full_message' = ContextMessage(ResultsMessage(results), conversation_history')

\* What the round leaves once its last result is in (lines 114-129).
EndRound(results) ==
    LET results_message == ResultsMessage(results)
        history == conversation_history
                     \o <<[role |-> "assistant", content |-> response],
                          [role |-> "user", content |-> results_message]>>
    IN  /\ conversation_history' = history
        /\ user_message' = results_message
        /\ IF iteration = max_iterations - 1
           THEN /\ pc' = "final_call"
                /\ UNCHANGED <<iteration, full_message>>
           ELSE /\ pc' = "call_model"
                /\ iteration' = iteration + 1
                /\ full_message' = ContextMessage(results_message, history)

\* tool_result of a tool call (lines 98-107): the text of the result, or the
\* failure text made from the exception.
ToolResultText(outcome) ==
    IF outcome.raised
    THEN Chars("Pomylka pry vykonanni instrumentu: ") \o outcome.text
    ELSE outcome.text

\* Lines 109-129 for the result of a tool call: it joins tool_results, and
\* after the last call of the round the round ends.
Collected(results) ==
    /\ tool_results' = results
    /\ IF Len(results) = Len(tool_calls)
       THEN EndRound(results)
       ELSE UNCHANGED <<pc, iteration, user_message, full_message, conversation_history>>

\* ToolReturns without the try statement of lines 98-107: an exception of
\* session.call_tool leaves the function.
ToolReturnsUncaught(outcome) ==
    /\ pc = "call_tool"
    /\ outcome \in ToolOutcomes(tool_calls[Len(tool_results) + 1])
    /\ trace' = Append(trace, [ev |-> "tool",
                               tool |-> tool_calls[Len(tool_results) + 1].tool,
                               args |-> tool_calls[Len(tool_results) + 1].args,
                               iteration |-> iteration, outcome |-> outcome])
    /\ IF outcome.raised
       THEN /\ pc' = "done"
            /\ result' = [how |-> "raise", exc |-> "Exception"]
            /\ UNCHANGED <<tool_results, iteration, user_message, full_message,
                           conversation_history>>
       ELSE /\ Collected(Append(tool_results,
                                [tool |-> tool_calls[Len(tool_results) + 1].tool,
                                 result |-> outcome.text]))
            /\ UNCHANGED result
    /\ UNCHANGED <<session, available_tools, request, max_iterations, response,
                   tool_calls, pieces,
                   model, previous, runs>>

\* session.call_tool for the next tool call of the round comes back (lines
\* 95-112).  The call is made for every tool call of the reply: the loop
\* never reads self.available_tools.
ToolReturns(outcome) ==
    /\ pc = "call_tool"
    /\ outcome \in ToolOutcomes(tool_calls[Len(tool_results) + 1])
    /\ trace' = Append(trace, [ev |-> "tool",
                               tool |-> tool_calls[Len(tool_results) + 1].tool,
                               args |-> tool_calls[Len(tool_results) + 1].args,
                               iteration |-> iteration, outcome |-> outcome])
    /\ Collected(Append(tool_results,
                        [tool |-> tool_calls[Len(tool_results) + 1].tool,
                         result |-> ToolResultText(outcome)]))
    /\ UNCHANGED <<session, available_tools, request, max_iterations, response,
                   tool_calls, result, pieces,
                   model, previous, runs>>

\* FinalAnswer treating the last reply as the loop treats the others: a
\* reply that asks for tools is no answer.
FinalAnswerScanning(r) ==
    IF r.raised
    THEN Returned(134, Chars("X Pomylka pry otrymanni ostatocnoi vidpovidi: ") \o r.text)
    ELSE IF extract_tool_calls(r.text).calls # <<>>
    THEN [how |-> "return_none"]
    ELSE Returned(132, r.text)

\* Lines 130-134 for what the last _call_ollama came back with.
FinalAnswer(r) ==
    IF r.raised
    THEN Returned(134, Chars("X Pomylka pry otrymanni ostatocnoi vidpovidi: ") \o r.text)
    ELSE Returned(132, r.text)

\* The model call after the round of the last iteration comes back (lines
\* 128-134): its reply is the answer, tool calls or not.
FinalReplies(outcome) ==
    /\ pc = "final_call"
    /\ trace' = Append(trace, [ev |-> "model", forced |-> TRUE,
                               iteration |-> iteration, outcome |-> outcome])
    /\ result' = FinalAnswer(call_ollama(outcome))
    /\ pc' = "done"
    /\ UNCHANGED <<session, available_tools, request, max_iterations, iteration,
                   user_message, full_message, conversation_history, response,
                   tool_calls, tool_results, pieces,
                   model, previous, runs>>

AllToolOutcomes ==
    UNION { ToolOutcomes([tool |-> [str |-> n], args |-> <<>>]) :
              n \in {ProviderTools[i] : i \in DOMAIN ProviderTools} \cup {Chars("get_weather")} }

Next ==
    \/ initialize
    \/ \E message \in UserMessages, budget \in (-1)..MaxBudget : Query(message, budget)
    \/ \E outcome \in BackendOutcomes : ModelReplies(outcome)
    \/ \E outcome \in AllToolOutcomes : ToolReturns(outcome)
    \/ \E outcome \in BackendOutcomes : FinalReplies(outcome)

Spec == Init /\ [][Next]_vars

\* Every await of a call comes back: the backend and the provider answer or
\* raise (httpx has a timeout of 120 s, line 148).
SpecFair ==
    /\ Init /\ [][Next]_vars
    /\ WF_vars(\E outcome \in BackendOutcomes : ModelReplies(outcome))
    /\ WF_vars(\E outcome \in AllToolOutcomes : ToolReturns(outcome))
    /\ WF_vars(\E outcome \in BackendOutcomes : FinalReplies(outcome))

\* The same client, with each call noting how the call before it ended.
QueryAfter(message, budget) ==
    /\ Started(message, budget)
    /\ previous' = Ended(result)
    /\ UNCHANGED <<session, available_tools, pieces, model, runs>>

NextSession ==
    \/ initialize
    \/ \E message \in UserMessages, budget \in (-1)..MaxBudget : QueryAfter(message, budget)
    \/ \E outcome \in BackendOutcomes : ModelReplies(outcome)
    \/ \E outcome \in AllToolOutcomes : ToolReturns(outcome)
    \/ \E outcome \in BackendOutcomes : FinalReplies(outcome)

SpecSession == Init /\ [][NextSession]_vars

(***************************************************************************)
(* Two calls of query_ollama_with_tools on one client, interleaved at      *)
(* their awaits (as asyncio.gather would run them).  runs[r] holds the     *)
(* locals of call r; self is shared and only read.                         *)
(***************************************************************************)
Runs == {1, 2}

\* The largest budget of an interleaved call.
MaxInterleavedBudget == 2

ReplyOneCall == Chars("{\"tool\": \"get_date\"}")

\* What the backend answers an interleaved call.
InterleavedOutcomes ==
    { [kind |-> "ConnectError"],
      [kind |-> "ok", data |-> <<[key |-> Chars("response"), val |-> [str |-> ReplyPlain]]>>],
      [kind |-> "ok", data |-> <<[key |-> Chars("response"), val |-> [str |-> ReplyOneCall]]>>] }

\* The locals of a call at its first await (lines 63-81).
StartLocals(message, budget) ==
    [pc |-> "call_model", request |-> message, max_iterations |-> budget,
     iteration |-> 0, user_message |-> message, full_message |-> message,
     conversation_history |-> <<[role |-> "user", content |-> message]>>,
     response |-> <<>>, tool_calls |-> <<>>, tool_results |-> <<>>,
     result |-> Running, trace |-> <<>>]

\* HistoryOf reading a list kept on the client, which the calls share: the
\* list of the call that came first.
HistoryOfShared(rs, r) ==
    rs[CHOOSE q \in DOMAIN rs : \A o \in DOMAIN rs : q <= o].conversation_history

\* conversation_history as call r reads it (lines 76, 115, 124): the list of
\* its own frame, made at line 63.
HistoryOf(rs, r) == rs[r].conversation_history

\* Lines 85-91 for call r.
ScannedLocals(l, reply, found) ==
    IF found.raised # "none"
    THEN [l EXCEPT !.response = reply, !.pc = "done",
                   !.result = [how |-> "raise", exc |-> found.raised]]
    ELSE IF found.calls = <<>>
    THEN [l EXCEPT !.response = reply, !.pc = "done", !.tool_calls = <<>>,
                   !.result = Returned(91, reply)]
    ELSE [l EXCEPT !.response = reply, !.pc = "call_tool",
                   !.tool_calls = found.calls, !.tool_results = <<>>]

\* Lines 80-91 for call r: its locals after _call_ollama came back.
RepliedLocals(l, r) ==
    IF r.raised
    THEN [l EXCEPT !.pc = "done",
                   !.result = Returned(83, Chars("X Pomylka pry zvernenna do Ollama: ") \o r.text)]
    ELSE ScannedLocals(l, r.text, extract_tool_calls(r.text))

AfterModel(rs, r, outcome) ==
    RepliedLocals([rs[r] EXCEPT !.trace = Append(@, [ev |-> "model", outcome |-> outcome])],
                  call_ollama(outcome))

\* Lines 114-129 for call r.
EndRoundLocals(l, history, results_message) ==
    IF l.iteration = l.max_iterations - 1
    THEN [l EXCEPT !.conversation_history = history, !.user_message = results_message,
                   !.pc = "final_call"]
    ELSE [l EXCEPT !.conversation_history = history, !.user_message = results_message,
                   !.pc = "call_model", !.iteration = @ + 1,
                   !.full_message = ContextMessage(results_message, history)]

\* Lines 109-129 for call r.
CollectedLocals(l, read, results) ==
    IF Len(results) = Len(l.tool_calls)
    THEN EndRoundLocals([l EXCEPT !.tool_results = results],
                        read \o <<[role |-> "assistant", content |-> l.response],
                                  [role |-> "user", content |-> ResultsMessage(results)]>>,
                        ResultsMessage(results))
    ELSE [l EXCEPT !.tool_results = results]

\* Lines 95-129 for call r: its locals after session.call_tool came back.
AfterTool(rs, r, outcome) ==
    CollectedLocals([rs[r] EXCEPT !.trace = Append(@, [ev |-> "tool", outcome |-> outcome])],
                    HistoryOf(rs, r),
                    Append(rs[r].tool_results,
                           [tool |-> rs[r].tool_calls[Len(rs[r].tool_results) + 1].tool,
                            result |-> ToolResultText(outcome)]))

\* Lines 130-134 for call r.
AfterFinal(rs, r, outcome) ==
    [rs[r] EXCEPT !.trace = Append(@, [ev |-> "final", outcome |-> outcome]),
                  !.pc = "done",
                  !.result = FinalAnswer(call_ollama(outcome))]

OtherVars == <<session, available_tools, pc, request, max_iterations, iteration,
               user_message, full_message, conversation_history, response,
               tool_calls, tool_results, result, trace, pieces, model, previous>>

\* Call r is made: the second one while the first is in flight or over.
RunStarts(r, message, budget) ==
    /\ session = "open"
    /\ r = Len(runs) + 1
    /\ runs' = Append(runs, StartLocals(message, budget))
    /\ UNCHANGED OtherVars

RunModelReplies(r, outcome) ==
    /\ r \in DOMAIN runs
    /\ runs[r].pc = "call_model"
    /\ runs' = [runs EXCEPT ![r] = AfterModel(runs, r, outcome)]
    /\ UNCHANGED OtherVars

RunToolReturns(r, outcome) ==
    /\ r \in DOMAIN runs
    /\ runs[r].pc = "call_tool"
    /\ outcome \in ToolOutcomes(runs[r].tool_calls[Len(runs[r].tool_results) + 1])
    /\ runs' = [runs EXCEPT ![r] = AfterTool(runs, r, outcome)]
    /\ UNCHANGED OtherVars

RunFinalReplies(r, outcome) ==
    /\ r \in DOMAIN runs
    /\ runs[r].pc = "final_call"
    /\ runs' = [runs EXCEPT ![r] = AfterFinal(runs, r, outcome)]
    /\ UNCHANGED OtherVars

NextInterleaved ==
    \/ initialize
    \/ \E r \in Runs, message \in UserMessages, budget \in 1..MaxInterleavedBudget :
          RunStarts(r, message, budget)
    \/ \E r \in Runs, outcome \in InterleavedOutcomes : RunModelReplies(r, outcome)
    \/ \E r \in Runs, outcome \in AllToolOutcomes : RunToolReturns(r, outcome)
    \/ \E r \in Runs, outcome \in InterleavedOutcomes : RunFinalReplies(r, outcome)

SpecInterleaved == Init /\ [][NextInterleaved]_vars

(***************************************************************************)
(* _extract_tool_calls on its own: the text is made of pieces, and one     *)
(* step applies the function to it.                                        *)
(***************************************************************************)
\* The largest number of pieces of a text.
MaxPieces == 2

PieceTexts ==
    <<Chars("Please check: "),
      Chars("{\"tool\": \"sum\", \"args\": {\"a\": 2, \"b\": 3}}"),
      Chars("{\"tool\": \"get_date\"}"),
      Chars("{\"tool\": \"search_duckduckgo\", \"args\": {\"query\": \"what's new\"}}"),
      Chars("{tool: 'sum', args: {a: 2, b:}}"),
      Chars("{'tool': 'sum', 'args': {'a': 2}}"),
      Chars("{\"tool\": \"multiply\", \"args\": [2, 3]}"),
      Chars("{\"note\": "),
      Chars("}"),
      ReplyDeep,
      Chars("{\"tool\": \"get_weather\"}"),
      Chars(" thanks"),
      Chars("{\"tool\": \"sum\", \"args\": null}"),
      Chars("{\"tool\": \"read_notes\", \"args\": \"none\"}"),
      Chars("{\"note\": {\"tool\": \"get_date\"}}"),
      Chars("{oops {\"tool\": \"get_date\"}}"),
      Chars("{\"tool\": \"sum\", \"args\": {\"tool\": \"get_date\"}}")>>

\* The pieces that are well-formed tool-call JSON objects naming a tool of
\* the registry, with an argument mapping of strings and numbers, and the
\* tool call each one states.
WellFormedCalls ==
    [i \in {2, 3, 4} |->
        CASE i = 2 -> [tool |-> [str |-> Chars("sum")],
                       args |-> <<[key |-> <<"a">>, val |-> [num |-> <<"2">>]],
                                  [key |-> <<"b">>, val |-> [num |-> <<"3">>]]>>]
          [] i = 3 -> [tool |-> [str |-> Chars("get_date")], args |-> <<>>]
          [] i = 4 -> [tool |-> [str |-> Chars("search_duckduckgo")],
                       args |-> <<[key |-> Chars("query"),
                                   val |-> [str |-> Chars("what's new")]]>>]]

\* The pieces in which no brace-delimited candidate decodes to an object
\* with a "tool" field, however they are put together.
PiecesWithoutCall == {1, 5, 8, 9, 12}

TextOf(ps) == Concat([i \in DOMAIN ps |-> PieceTexts[ps[i]]])

InitExtract ==
    /\ session = "none"
    /\ available_tools = <<>>
    /\ pc = "extract"
    /\ request = <<>>
    /\ max_iterations = 0
    /\ iteration = 0
    /\ user_message = <<>>
    /\ full_message = <<>>
    /\ conversation_history = <<>>
    /\ pieces \in UNION {[1..n -> DOMAIN PieceTexts] : n \in 0..MaxPieces}
    /\ response = TextOf(pieces)
    /\ tool_calls = <<>>
    /\ tool_results = <<>>
    /\ result = Running
    /\ trace = <<>>
    /\ model = "llama2"
    /\ previous = "none"
    /\ runs = <<>>

\* What the call leaves: the list returned (line 218), or the exception.
Extracted(found) ==
    /\ tool_calls' = found.calls
    /\ result' = IF found.raised # "none"
                 THEN [how |-> "raise", exc |-> found.raised]
                 ELSE Returned(218, found.calls)

\* One call of _extract_tool_calls(response), lines 176-218.
Extract ==
    /\ pc = "extract"
    /\ Extracted(extract_tool_calls(response))
    /\ pc' = "extracted"
    /\ UNCHANGED <<session, available_tools, request, max_iterations, iteration,
                   user_message, full_message, conversation_history, response,
                   tool_results, trace, pieces,
                   model, previous, runs>>

NextExtract == Extract

SpecExtract == InitExtract /\ [][NextExtract]_vars

(***************************************************************************)
(* What a run did, read off its trace.                                     *)
(***************************************************************************)
Last(seq) == seq[Len(seq)]

\* The calls of _call_ollama and of session.call_tool, in order.
ModelCalls == SelectSeq(trace, LAMBDA e : e.ev = "model")

ToolCallsMade == SelectSeq(trace, LAMBDA e : e.ev = "tool")

\* The model calls of the loop body, whose replies are scanned.
ScannedCalls == SelectSeq(trace, LAMBDA e : e.ev = "model" /\ ~e.forced)

ForcedCalls == SelectSeq(trace, LAMBDA e : e.ev = "model" /\ e.forced)

\* The iterations in which a tool was invoked.
ToolRounds == {trace[i].iteration : i \in {j \in DOMAIN trace : trace[j].ev = "tool"}}

GatewayFailedAt(i) == trace[i].ev = "model" /\ call_ollama(trace[i].outcome).raised

\* The reply of the model call at trace position i (it did not fail).
ReplyAt(i) == call_ollama(trace[i].outcome).text

InRun == pc \in {"call_model", "call_tool", "final_call"}

(***************************************************************************)
(* Claims on the loop, checked under Spec.                                 *)
(***************************************************************************)

\* C1: session.call_tool is never invoked for a tool call whose name is not
\* among the tools loaded into available_tools.
C1_UnknownToolNeverInvoked ==
    \A i \in DOMAIN trace :
        trace[i].ev = "tool" => InRegistry(available_tools, trace[i])

\* C2, as stated: with max_iterations = 1 a run makes one model call and
\* executes no tool, and returns the reply of that call.
C2_BudgetOneSingleCall ==
    max_iterations = 1 =>
        /\ Len(ModelCalls) <= 1
        /\ ToolCallsMade = <<>>
        /\ (pc = "done" /\ trace # <<>> /\ ~GatewayFailedAt(1) /\ result.how = "return")
               => result.value = ReplyAt(1)

\* C2, amended: with max_iterations = 1 a run makes at most two model calls.
\* If the first reply holds tool calls, each of them is executed, in one
\* round, then one forced model call is made and its reply is returned
\* unchanged; if it holds none, it is returned and no tool is executed.
C2_BudgetOneRoundThenFinal ==
    (max_iterations = 1 /\ trace # <<>>) =>
        /\ Len(ModelCalls) <= 2
        /\ trace[1].ev = "model" /\ ~trace[1].forced
        /\ \A i \in DOMAIN trace : trace[i].ev = "tool" => trace[i].iteration = 0
        /\ ToolCallsMade # <<>> =>
              /\ ~GatewayFailedAt(1)
              /\ Len(ToolCallsMade) <= Len(extract_tool_calls(ReplyAt(1)).calls)
              /\ \A j \in DOMAIN ToolCallsMade :
                    ToolCallsMade[j].tool = extract_tool_calls(ReplyAt(1)).calls[j].tool
        /\ (pc = "done" /\ ToolCallsMade = <<>> /\ result.how = "return" /\ ~GatewayFailedAt(1))
              => result = Returned(91, ReplyAt(1))
        /\ (pc = "done" /\ ToolCallsMade # <<>>) =>
              /\ Len(ToolCallsMade) = Len(extract_tool_calls(ReplyAt(1)).calls)
              /\ Len(ModelCalls) = 2
              /\ Last(trace).ev = "model" /\ Last(trace).forced
              /\ ~GatewayFailedAt(Len(trace)) => result = Returned(132, ReplyAt(Len(trace)))

\* A run with budget 1 whose first reply asked for two tools ran both and
\* returned the reply of the forced call.
C2_Witness ==
    /\ max_iterations = 1
    /\ pc = "done"
    /\ Len(ToolCallsMade) = 2
    /\ result.how = "return" /\ result.line = 132

\* C3: the iteration counter only increases and stays in 0..B-1; a run makes
\* at most B scanned model calls and B tool rounds; a model call beyond
\* those is the one forced call, and it is the last.
C3_Counts ==
    (max_iterations >= 1 /\ pc # "idle") =>
        /\ iteration \in 0..(max_iterations - 1)
        /\ Len(ScannedCalls) <= max_iterations
        /\ Cardinality(ToolRounds) <= max_iterations
        /\ ToolRounds \subseteq 0..(max_iterations - 1)
        /\ Len(ForcedCalls) <= 1
        /\ Len(ModelCalls) <= max_iterations + 1
        /\ \A i \in DOMAIN trace :
              (trace[i].ev = "model" /\ trace[i].forced) => i = Len(trace)
        /\ \A i \in DOMAIN ScannedCalls : ScannedCalls[i].iteration = i - 1

C3_Step == InRun => (iteration' >= iteration /\ max_iterations' = max_iterations)

C3_IterationBudget == [](C3_Counts) /\ [][C3_Step]_vars

\* A run with the largest budget used it up: as many scanned calls and
\* rounds as the budget, then the forced call.
C3_Witness ==
    /\ max_iterations = MaxBudget
    /\ pc = "done"
    /\ Len(ScannedCalls) = MaxBudget
    /\ Cardinality(ToolRounds) = MaxBudget
    /\ Len(ForcedCalls) = 1

\* C4: a model call that raises is the last thing the run does, and the run
\* returns an error message.
C4_GatewayFailureEndsRun ==
    \A i \in DOMAIN trace :
        GatewayFailedAt(i) =>
            /\ i = Len(trace)
            /\ pc = "done"
            /\ result.how = "return"
            /\ result.line = (IF trace[i].forced THEN 134 ELSE 83)
            /\ result.value =
                  (IF trace[i].forced
                   THEN Chars("X Pomylka pry otrymanni ostatocnoi vidpovidi: ")
                   ELSE Chars("X Pomylka pry zvernenna do Ollama: "))
                  \o call_ollama(trace[i].outcome).text

\* The model call of the second iteration failed, after a round of tools.
C4_Witness ==
    /\ pc = "done"
    /\ Len(trace) >= 3
    /\ GatewayFailedAt(Len(trace))
    /\ ~Last(trace).forced
    /\ Last(trace).iteration = 1

\* C5: a tool call that raises leaves a failure text as its result; the
\* calls after it in the round are made, and the round ends in a model
\* call, never in the end of the run.
C5_Step ==
    pc = "call_tool" =>
        /\ Len(trace') = Len(trace) + 1
        /\ Last(trace').ev = "tool"
        /\ Last(trace').tool = tool_calls[Len(tool_results) + 1].tool
        /\ Len(tool_results') = Len(tool_results) + 1
        /\ Last(tool_results').tool = tool_calls[Len(tool_results) + 1].tool
        /\ Last(trace').outcome.raised =>
              Last(tool_results').result =
                  Chars("Pomylka pry vykonanni instrumentu: ") \o Last(trace').outcome.text
        /\ result' = Running
        /\ tool_calls' = tool_calls
        /\ IF Len(tool_results') < Len(tool_calls)
           THEN pc' = "call_tool"
           ELSE pc' \in {"call_model", "final_call"}

C5_ToolFailureRecovered == [][C5_Step]_vars

\* The first of two tool calls raised, the second was made, and a model
\* call followed.
C5_Witness ==
    \E i \in DOMAIN trace :
        /\ trace[i].ev = "tool" /\ trace[i].outcome.raised
        /\ i + 2 <= Len(trace)
        /\ trace[i + 1].ev = "tool" /\ trace[i + 1].iteration = trace[i].iteration
        /\ trace[i + 2].ev = "model"

\* C6: a reply in which the extractor finds nothing ends the run: it is
\* returned as it is, and nothing is called after it.
C6_Step ==
    (pc = "call_model" /\ trace' # trace) =>
        /\ Len(trace') = Len(trace) + 1
        /\ (/\ ~call_ollama(Last(trace').outcome).raised
            /\ extract_tool_calls(call_ollama(Last(trace').outcome).text).raised = "none"
            /\ extract_tool_calls(call_ollama(Last(trace').outcome).text).calls = <<>>)
              => /\ pc' = "done"
                 /\ result' = Returned(91, call_ollama(Last(trace').outcome).text)

C6_Answered ==
    (result.how = "return" /\ result.line = 91) =>
        /\ pc = "done"
        /\ Last(trace).ev = "model" /\ ~Last(trace).forced
        /\ result.value = ReplyAt(Len(trace))
        /\ \A i \in DOMAIN trace :
              trace[i].ev = "tool" => trace[i].iteration < Last(trace).iteration

C6_NoToolCallsEndsRun == [](C6_Answered) /\ [][C6_Step]_vars

\* The reply of the second iteration held no tool call and was returned.
C6_Witness ==
    /\ pc = "done"
    /\ result = Returned(91, ReplyPlain)
    /\ Last(trace).iteration = 1

\* C7: the round of iteration B-1 is followed by one model call, the last
\* of the run, whose reply is returned whatever it holds.
C7_ForcedFinalCall ==
    /\ pc = "final_call" =>
          /\ iteration = max_iterations - 1
          /\ Last(trace).ev = "tool" /\ Last(trace).iteration = max_iterations - 1
          /\ Len(tool_results) = Len(tool_calls)
    /\ (/\ InRun
        /\ trace # <<>> /\ Last(trace).ev = "tool"
        /\ Last(trace).iteration = max_iterations - 1
        /\ Len(tool_results) = Len(tool_calls)) => pc = "final_call"
    /\ \A i \in DOMAIN trace :
          (trace[i].ev = "model" /\ trace[i].forced) =>
              /\ i = Len(trace) /\ i > 1
              /\ trace[i - 1].ev = "tool" /\ trace[i - 1].iteration = max_iterations - 1
              /\ pc = "done"
              /\ ~GatewayFailedAt(i) => result = Returned(132, ReplyAt(i))

\* The forced call's reply asked for tools again and was returned as it is.
C7_Witness ==
    /\ pc = "done"
    /\ trace # <<>>
    /\ Last(trace).ev = "model" /\ Last(trace).forced
    /\ result = Returned(132, ReplyTwoCalls)
    /\ extract_tool_calls(result.value).calls # <<>>

\* The tool calls of the round the run is in, or has just ended.
RoundCalls ==
    SelectSeq(trace, LAMBDA e :
        e.ev = "tool" /\ e.iteration = (IF pc = "call_model" THEN iteration - 1 ELSE iteration))

\* The prompt of the model call that follows a round.
NextPrompt == IF pc = "final_call" THEN user_message ELSE full_message

\* C8: the tools of a round are invoked in the order their calls were
\* extracted; the results block holds one entry per call, tagged with its
\* tool name, in that order, and the next prompt starts with it.
C8_RoundOrder ==
    (InRun /\ (pc = "call_model" => iteration >= 1)) =>
        /\ tool_calls = extract_tool_calls(response).calls
        /\ Len(RoundCalls) = Len(tool_results)
        /\ Len(RoundCalls) <= Len(tool_calls)
        /\ \A j \in DOMAIN RoundCalls :
              /\ RoundCalls[j].tool = tool_calls[j].tool
              /\ RoundCalls[j].args = tool_calls[j].args
              /\ tool_results[j] = [tool |-> tool_calls[j].tool,
                                    result |-> ToolResultText(RoundCalls[j].outcome)]
        /\ pc # "call_tool" =>
              /\ Len(RoundCalls) = Len(tool_calls)
              /\ Prefix(NextPrompt, Len(ResultsMessage(tool_results)))
                    = Chars("Osj rezuljtaty vykonanna instrumentiv:\n")
                      \o Concat([j \in DOMAIN tool_calls |->
                             Chars("\n# Instrument '") \o PyStr(tool_calls[j].tool)
                             \o Chars("':\n") \o ToolResultText(RoundCalls[j].outcome)
                             \o Chars("\n")])
                      \o Chars("\nTeper, yspoljzuucy cu informaciu, daj ostatocnu vidpovidj korystuvacu.")

\* After the round of get_date and sum the prompt of the second iteration
\* is built.
C8_Witness ==
    /\ pc = "call_model"
    /\ iteration = 1
    /\ Len(tool_results) = 2
    /\ tool_results[1].tool = [str |-> Chars("get_date")]
    /\ tool_results[2].tool = [str |-> Chars("sum")]

(***************************************************************************)
(* Claims on the extractor, checked under SpecExtract.                     *)
(***************************************************************************)
\* Whether the elements of sub appear in seq, in their order.
RECURSIVE IsSubsequence(_, _)
IsSubsequence(sub, seq) ==
    IF sub = <<>> THEN TRUE
    ELSE IF seq = <<>> THEN FALSE
    ELSE IF Head(sub) = Head(seq) THEN IsSubsequence(Tail(sub), Tail(seq))
    ELSE IsSubsequence(sub, Tail(seq))

\* The tool calls the well-formed pieces of the text state, left to right.
PlantedCalls ==
    LET planted == SelectSeq(pieces, LAMBDA i : i \in DOMAIN WellFormedCalls)
    IN  [j \in DOMAIN planted |-> WellFormedCalls[planted[j]]]

\* C9: every well-formed tool-call object of the text that names a tool of
\* the registry, whatever the string values of its arguments, is among the
\* tool calls returned, with its name and arguments, in left-to-right order.
\* Checked on the texts whose tool-call objects stand at the top level (no
\* piece opens an enclosing object around them).
C9_WellFormedCallsExtracted ==
    (/\ pc = "extracted"
     /\ result.how = "return"
     /\ \A j \in DOMAIN pieces : pieces[j] # 8)
        => IsSubsequence(PlantedCalls, tool_calls)

\* C10: _extract_tool_calls raises on no text, and returns the empty list
\* for a text in which no candidate decodes to an object with a "tool"
\* field.
C10_ExtractorNeverRaises ==
    pc = "extracted" =>
        /\ result.how = "return"
        /\ (\A j \in DOMAIN pieces : pieces[j] \in PiecesWithoutCall) => tool_calls = <<>>

\* The decoded candidates of the text that are objects with a "tool" field,
\* left to right.
ToolObjects ==
    LET spans == FindIter(response, 1)
        decoded == [j \in DOMAIN spans |->
                      JsonLoads(ReplaceQuotes(SubSeq(response, spans[j].start, spans[j].end)))]
        kept == SelectSeq(decoded, LAMBDA r :
                    /\ r.err = "none"
                    /\ "obj" \in DOMAIN r.val
                    /\ \E i \in DOMAIN r.val.obj : r.val.obj[i].key = Chars("tool"))
    IN  [j \in DOMAIN kept |-> kept[j].val.obj]

\* The value a key has in an object that holds it.
ValueOf(pairs, k) == pairs[CHOOSE i \in DOMAIN pairs : pairs[i].key = k].val

\* The tool calls the pieces with an "args" of each kind state: a mapping
\* (2, and 6 in single quotes), none (3, 11), a list (7), null (13), a
\* string (14).
ArgsPieces == {2, 3, 6, 7, 11, 13, 14}

ArgsOfPiece ==
    [i \in ArgsPieces |->
        CASE i = 2 -> <<[key |-> <<"a">>, val |-> [num |-> <<"2">>]],
                        [key |-> <<"b">>, val |-> [num |-> <<"3">>]]>>
          [] i = 6 -> <<[key |-> <<"a">>, val |-> [num |-> <<"2">>]]>>
          [] OTHER -> <<>>]

ToolOfPiece ==
    [i \in ArgsPieces |->
        CASE i \in {2, 6, 13} -> Chars("sum")
          [] i = 3 -> Chars("get_date")
          [] i = 7 -> Chars("multiply")
          [] i = 11 -> Chars("get_weather")
          [] OTHER -> Chars("read_notes")]

\* C11: every candidate that decodes to an object with a "tool" field gives
\* one tool call, in order; its arguments are the "args" value when that is
\* a mapping and the empty mapping when "args" is absent or anything else.
C11_ArgsDefault ==
    (pc = "extracted" /\ result.how = "return") =>
        /\ Len(tool_calls) = Len(ToolObjects)
        /\ \A j \in DOMAIN ToolObjects :
              /\ tool_calls[j].tool = ValueOf(ToolObjects[j], Chars("tool"))
              /\ tool_calls[j].args =
                    (IF /\ \E i \in DOMAIN ToolObjects[j] : ToolObjects[j][i].key = Chars("args")
                        /\ "obj" \in DOMAIN ValueOf(ToolObjects[j], Chars("args"))
                     THEN ValueOf(ToolObjects[j], Chars("args")).obj
                     ELSE <<>>)
        /\ (\A j \in DOMAIN pieces : pieces[j] \in ArgsPieces \cup {1, 12}) =>
              LET stated == SelectSeq(pieces, LAMBDA i : i \in ArgsPieces)
              IN  tool_calls = [j \in DOMAIN stated |->
                                   [tool |-> [str |-> ToolOfPiece[stated[j]]],
                                    args |-> ArgsOfPiece[stated[j]]]]

\* A text with a call whose "args" is a list and one whose "args" is a
\* mapping gave both calls, the first with no arguments.
C11_Witness ==
    /\ pc = "extracted"
    /\ pieces = <<7, 2>>
    /\ Len(tool_calls) = 2
    /\ tool_calls[1].args = <<>>
    /\ tool_calls[2].args # <<>>

(***************************************************************************)
(* Claims on the gateway and on the session, checked under Spec.           *)
(***************************************************************************)
\* The text _call_ollama returns for a body without a "response" key.
Placeholder == Chars("Pomylka: porozna vidpovidj vid modeli")

\* Whether the decoded body has no reply field, or an empty one.
EmptyOrMissingReply(outcome) ==
    /\ outcome.kind = "ok"
    /\ \A i \in DOMAIN outcome.data :
          outcome.data[i].key = Chars("response") => outcome.data[i].val = [str |-> <<>>]

\* C12: a decoded body whose reply field is empty or missing is a
\* successful completion: _call_ollama returns the placeholder text, and the
\* run does not end with a gateway error message.
C12_EmptyReplyPlaceholder ==
    \A i \in DOMAIN trace :
        (trace[i].ev = "model" /\ EmptyOrMissingReply(trace[i].outcome)) =>
            /\ ~call_ollama(trace[i].outcome).raised
            /\ call_ollama(trace[i].outcome).text = Placeholder
            /\ (i = Len(trace) /\ pc = "done" /\ result.how = "return")
                  => /\ result.line \in {91, 132}
                     /\ result.value = Placeholder

\* The state a first call with this message and budget starts in.
FirstRunState(message, budget) ==
    [request |-> message, max_iterations |-> budget, iteration |-> 0,
     user_message |-> message, response |-> <<>>, tool_calls |-> <<>>,
     tool_results |-> <<>>,
     full_message |-> IF budget <= 0 THEN <<>> ELSE message,
     conversation_history |->
         IF budget <= 0 THEN <<>> ELSE <<[role |-> "user", content |-> message]>>,
     pc |-> IF budget <= 0 THEN "done" ELSE "call_model"]

RunState ==
    [request |-> request, max_iterations |-> max_iterations, iteration |-> iteration,
     user_message |-> user_message, response |-> response, tool_calls |-> tool_calls,
     tool_results |-> tool_results, full_message |-> full_message,
     conversation_history |-> conversation_history, pc |-> pc]

\* C13: no step of a call changes self.model, self.session or
\* self.available_tools, and a call that follows another one, however that
\* one ended, starts in the state a first call starts in: its history holds
\* its own message and nothing else.
C13_Step ==
    /\ session = "open" =>
          (session' = session /\ available_tools' = available_tools /\ model' = model)
    /\ (pc \in {"idle", "done"} /\ pc' \in {"call_model", "done"}) =>
          RunState' = FirstRunState(request', max_iterations')

C13_SessionReusable == [][C13_Step]_vars

\* A call that followed one ended by a gateway error has run a round of
\* tools and holds the three turns of its own.
C13_Witness ==
    /\ previous = "GatewayFailed"
    /\ pc = "call_model"
    /\ iteration = 1
    /\ Len(conversation_history) = 3
    /\ conversation_history[1] = [role |-> "user", content |-> request]

(***************************************************************************)
(* Claims on how a call ends.                                              *)
(***************************************************************************)
\* The terminal state a return statement stands for.
TerminalOf(line) ==
    CASE line = 91 -> "NoToolCalls"
      [] line = 132 -> "BudgetExhausted"
      [] line \in {83, 134} -> "GatewayFailed"
      [] OTHER -> "none"

\* The part of C14 on progress: under SpecFair a call with a budget of at
\* least 1 that is under way comes to its end.
C14_EventuallyEnds == (InRun /\ max_iterations >= 1) ~> (pc = "done")

\* C14: a call with a budget of at least 1 that has ended has returned a
\* string, from one of the terminal states NoToolCalls, BudgetExhausted and
\* GatewayFailed: it ends on no other path.
C14_EndsWithAnswer ==
    (pc = "done" /\ max_iterations >= 1) =>
        /\ result.how = "return"
        /\ TerminalOf(result.line) # "none"

(***************************************************************************)
(* Claims on prompts and on the turn history, checked under Spec.          *)
(***************************************************************************)
\* Whether sub occurs in text.
Contains(text, sub) ==
    \E i \in 1..(Len(text) - Len(sub) + 1) : SubSeq(text, i, i + Len(sub) - 1) = sub

\* text[-n:]
Suffix(text, n) == SubSeq(text, Len(text) - n + 1, Len(text))

\* The window of the last turns as line 77 renders it.
RenderedWindow == ContextLines(LastN(conversation_history, ContextWindow))

\* C15: the prompt of iteration 0 is the message the user submitted; the
\* prompt of every later iteration contains that message, and ends with the
\* rendered window of the last 4 turns.
C15_PromptHoldsRequest ==
    pc = "call_model" =>
        IF iteration = 0
        THEN full_message = request
        ELSE /\ Contains(full_message, request)
             /\ Len(full_message) >= Len(RenderedWindow)
             /\ Suffix(full_message, Len(RenderedWindow)) = RenderedWindow
\* The rounds of tools the call has completed.
RoundsDone ==
    iteration + (IF pc = "final_call" \/ (pc = "done" /\ trace # <<>> /\ Last(trace).forced)
                 THEN 1 ELSE 0)

\* The results of the round of iteration i, as the trace shows them.
ResultsOfRound(i) ==
    LET calls == SelectSeq(trace, LAMBDA e : e.ev = "tool" /\ e.iteration = i)
    IN  [j \in DOMAIN calls |->
            [tool |-> calls[j].tool, result |-> ToolResultText(calls[j].outcome)]]

\* C16: the history starts with the user's message and grows by one pair
\* per completed round, the assistant turn with the model's reply and then
\* the user turn with the results block: 1 + 2k turns after k rounds, with
\* alternating roles.  (A call with no iteration to run never makes the
\* history: the statement is about budgets of at least 1.)
C16_Shape ==
    (max_iterations >= 1 /\ pc # "idle") =>
        /\ Len(conversation_history) = 1 + 2 * RoundsDone
        /\ conversation_history[1] = [role |-> "user", content |-> request]
        /\ \A j \in DOMAIN conversation_history :
              conversation_history[j].role = (IF j % 2 = 1 THEN "user" ELSE "assistant")
        /\ \A k \in 1..RoundsDone :
              /\ conversation_history[2 * k].content = call_ollama(ScannedCalls[k].outcome).text
              /\ conversation_history[2 * k + 1].content
                    = ResultsMessage(ResultsOfRound(k - 1))

\* Within a call a step leaves the history as it is or appends one pair.
C16_Step ==
    InRun =>
        /\ Len(conversation_history') \in {Len(conversation_history),
                                           Len(conversation_history) + 2}
        /\ SubSeq(conversation_history', 1, Len(conversation_history)) = conversation_history

C16_HistoryAppendOnly == [](C16_Shape) /\ [][C16_Step]_vars

\* Two rounds are done and the history holds five turns.
C16_Witness ==
    /\ pc = "call_model"
    /\ iteration = 2
    /\ Len(conversation_history) = 5
    /\ conversation_history[4].role = "assistant"
\* The turns of the history a prompt may show: the last 4, or all of them
\* when there are fewer.
WindowTurns ==
    {j \in DOMAIN conversation_history : j > Len(conversation_history) - 4}

\* One turn as the prompt shows it: the role, at most 200 characters of the
\* content, and the marker "...".
RenderedTurn(turn) ==
    Chars(turn.role) \o Chars(": ")
    \o [i \in 1..(IF Len(turn.content) > 200 THEN 200 ELSE Len(turn.content)) |-> turn.content[i]]
    \o Chars("...\n")

\* C17: after the header the prompt of an iteration after the first holds
\* the last 4 turns of the history and no other, in their order, each with
\* its role and at most 200 characters of its content before the marker.
C17_Window ==
    (pc = "call_model" /\ iteration >= 1) =>
        /\ Cardinality(WindowTurns) <= 4
        /\ full_message =
              user_message \o Chars("\n\n[Kontekst poperednih krokiv]\n")
              \o Concat([k \in 1..Cardinality(WindowTurns) |->
                    RenderedTurn(conversation_history[
                        Len(conversation_history) - Cardinality(WindowTurns) + k])])

\* Building the prompt changes no stored turn: the step that builds it
\* appends the round's pair (C16) and leaves the turns before it whole.
C17_Step ==
    (InRun /\ pc' = "call_model") =>
        SubSeq(conversation_history', 1, Len(conversation_history)) = conversation_history

C17_ContextWindow == [](C17_Window) /\ [][C17_Step]_vars

\* The history holds five turns, so the window leaves the first one out, and
\* a turn of the window is longer than 200 characters.
C17_Witness ==
    /\ pc = "call_model"
    /\ iteration = 2
    /\ Len(conversation_history) = 5
    /\ \E j \in WindowTurns : Len(conversation_history[j].content) > 200
    /\ Len(conversation_history[1].content) > 200

(***************************************************************************)
(* Nested candidates, checked under SpecExtract.                           *)
(***************************************************************************)
\* The pieces with one object inside another: the outer one decodes but is
\* no tool call (15), does not decode (16), is a tool call itself (17).
NestedPieces == {15, 16, 17}

\* The tool call of the outermost span of the piece that decodes as one.
OutermostCall ==
    [i \in NestedPieces |->
        IF i = 17
        THEN [tool |-> [str |-> Chars("sum")],
              args |-> <<[key |-> Chars("tool"), val |-> [str |-> Chars("get_date")]]>>]
        ELSE [tool |-> [str |-> Chars("get_date")], args |-> <<>>]]

\* C18: of nested spans the outermost one that decodes as a tool call gives
\* the tool call: a span inside an accepted one gives none of its own, and
\* a tool-call object inside a span that is not accepted is extracted.
C18_OutermostParsing ==
    (/\ pc = "extracted"
     /\ \A j \in DOMAIN pieces : pieces[j] \in NestedPieces \cup {1, 12})
        => LET nested == SelectSeq(pieces, LAMBDA i : i \in NestedPieces)
           IN  tool_calls = [j \in DOMAIN nested |-> OutermostCall[nested[j]]]

RECURSIVE Alone(_, _, _)
Alone(r, l, events) ==
    IF events = <<>> THEN l
    ELSE Alone(r,
               CASE Head(events).ev = "model" -> AfterModel([q \in {r} |-> l], r, Head(events).outcome)
                 [] Head(events).ev = "tool" -> AfterTool([q \in {r} |-> l], r, Head(events).outcome)
                 [] OTHER -> AfterFinal([q \in {r} |-> l], r, Head(events).outcome),
               Tail(events))

\* C19: whatever the interleaving, the locals of each call (history, prompt,
\* result) are those of the same call made alone with the same answers of
\* the model and of the tools, and its history starts with its own request.
C19_RunsIndependent ==
    \A r \in DOMAIN runs :
        /\ runs[r] = Alone(r, StartLocals(runs[r].request, runs[r].max_iterations),
                           runs[r].trace)
        /\ runs[r].conversation_history[1] = [role |-> "user", content |-> runs[r].request]

\* Both calls are in flight with different requests, each past a round of
\* its own, the round of the first with a failed tool and the round of the
\* second without.
C19_Witness ==
    /\ Len(runs) = 2
    /\ runs[1].request # runs[2].request
    /\ runs[1].pc = "call_model" /\ runs[1].iteration = 1
    /\ runs[2].pc = "call_model" /\ runs[2].iteration = 1
    /\ runs[1].trace[2].outcome.raised
    /\ ~runs[2].trace[2].outcome.raised
    /\ runs[1].full_message # runs[2].full_message

====
